---- MODULE Spec2Model ----
(***************************************************************************)
(* Source Hunter: the rate-limited request queue (services/youtubeService), *)
(* the comment crawler (fetchVideoDetails / fetchCommentThreads /           *)
(* fetchReplies), the Dexie store (db.ts) and the scan controller of        *)
(* components/Dashboard.tsx (handleSmartScan, handleDeepScan, stopScan,     *)
(* handleClear, the initialization effect).                                 *)
(*                                                                          *)
(* One step of the model is one macrotask of the JavaScript event loop: a   *)
(* user click, a timer, a remote response or the completion of an IndexedDB *)
(* request, together with every microtask continuation it triggers.         *)
(*                                                                          *)
(* Spec is the page with all four buttons; in it the Clear Data handler     *)
(* runs without another step between its two store requests.  SpecClear is  *)
(* the page with the Clear Data button only, the handler interleaved with   *)
(* the automatically started scan at each of its awaits.  SpecQuery is the  *)
(* candidates live query over store contents built row by row.              *)
(* SpecAnalyze is analysisService.analyzeComment applied to comment texts   *)
(* built character by character.  SpecTrack is the page with the Deep Scan  *)
(* and Stop buttons over an analytics store (services/analyticsService)     *)
(* that may reject what is added to it.  SpecSmart is the page with the     *)
(* Smart Scan button only, SpecScan the page with the Deep Scan and Stop    *)
(* buttons; LiveSmart and LiveScan add weak fairness of the steps the event *)
(* loop takes by itself.                                                    *)
(***************************************************************************)
EXTENDS Integers, Sequences, FiniteSets, TLC

\* ------------------------------------------------------------------ bounds
\* number of user clicks (Smart Scan, Deep Scan, Stop, Clear Data) in a behaviour
MaxClicks == 2
\* largest step of the model clock, in milliseconds
TickMs == 250

\* ------------------------------------------------------- program constants
\* await delay(250) in processQueue
MinInterval == 250
\* c.score > 10 in the promising-thread filter of handleSmartScan
PromisingScore == 10
\* Math.min(score, 100)
ScoreCap == 100
\* res.status === 403
Forbidden == 403
\* the score range of the candidates query
MinCandidateScore == 1
MaxCandidateScore == 100
\* number of comment ids the store contents of SpecQuery are built from
MaxRows == 3
\* length of the longest text of SpecAnalyze, in characters
MaxTextLen == 8

\* ------------------------------------------------------------ small helpers
Min(a, b) == IF a < b THEN a ELSE b
Max(a, b) == IF a > b THEN a ELSE b

\* JavaScript null (pageToken === null) and undefined (stats.error)
Null == "<null>"
Undefined == "<undefined>"

\* the container the mounted Dashboard works on (its videoId prop)
videoId == "V"

\* another video, scanned in an earlier session
otherVideoId == "W"

\* HTTP statuses the remote can answer with: success, forbidden, other failure
Statuses == {200, Forbidden, 500}

ResOk(status) == status >= 200 /\ status <= 299

\* ----------------------------------------------------------------- scoring
\* A text is represented by the set of PATTERNS it matches.
analyzeScore(text) ==
  LET s1 == IF "SOURCE" \in text THEN 80 ELSE 0
      s2 == s1 + (IF "HELPER" \in text THEN 50 ELSE 0)
      s3 == s2 + (IF "BRACKET" \in text THEN 40 ELSE 0)
      s4 == s3 + (IF "QUESTION" \in text THEN 10 ELSE 0)
  IN  Min(s4, ScoreCap)

\* --------------------------------------------------- scoring, by character
\* analyzeComment on a text given as a sequence of one-character strings.
\* Offsets of the source are 0-based, positions of a sequence 1-based.
LowerSeq == << "a", "b", "c", "d", "e", "f", "g", "h", "i", "j", "k", "l", "m",
               "n", "o", "p", "q", "r", "s", "t", "u", "v", "w", "x", "y", "z" >>
UpperSeq == << "A", "B", "C", "D", "E", "F", "G", "H", "I", "J", "K", "L", "M",
               "N", "O", "P", "Q", "R", "S", "T", "U", "V", "W", "X", "Y", "Z" >>

\* [A-Z], [a-z], \s, and the characters the dot does not match
IsUpper(c) == \E i \in 1..Len(UpperSeq) : UpperSeq[i] = c
IsLower(c) == \E i \in 1..Len(LowerSeq) : LowerSeq[i] = c
IsSpace(c) == c \in {" ", "\t", "\n", "\r"}
IsLineTerminator(c) == c \in {"\n", "\r"}

\* the i flag: characters are compared by their lower-case form
toLowerCase(c) ==
  IF IsUpper(c)
  THEN LowerSeq[CHOOSE i \in 1..Len(UpperSeq) : UpperSeq[i] = c]
  ELSE c

\* PATTERNS.SOURCE: (name|source|sauce|anime|movie|title|track|song)
SourceLabels ==
  { << "n", "a", "m", "e" >>, << "s", "o", "u", "r", "c", "e" >>,
    << "s", "a", "u", "c", "e" >>, << "a", "n", "i", "m", "e" >>,
    << "m", "o", "v", "i", "e" >>, << "t", "i", "t", "l", "e" >>,
    << "t", "r", "a", "c", "k" >>, << "s", "o", "n", "g" >> }
\* PATTERNS.SOURCE: [:=-]
Separators == {":", "=", "-"}
\* PATTERNS.HELPER: ['...] (the apostrophe of the character class that
\* the texts can hold)
Apostrophes == {"'"}
\* PATTERNS.QUESTION: (what|name|sauce)
QuestionWords ==
  { << "w", "h", "a", "t" >>, << "n", "a", "m", "e" >>,
    << "s", "a", "u", "c", "e" >> }

MinOf(S) == CHOOSE x \in S : \A y \in S : x <= y
MaxOf(S) == CHOOSE x \in S : \A y \in S : x >= y

\* the result of String.match when the pattern does not match (null)
NoMatch == [found |-> FALSE, index |-> 0, m0 |-> << >>, m1 |-> << >>,
            m2 |-> << >>]
Match(index, m0, m1, m2) ==
  [found |-> TRUE, index |-> index, m0 |-> m0, m1 |-> m1, m2 |-> m2]

\* the word, ignoring case, stands at position i of the text
WordAt(text, i, word) ==
  /\ i + Len(word) - 1 <= Len(text)
  /\ \A j \in 1..Len(word) : toLowerCase(text[i + j - 1]) = word[j]

\* \s* taken greedily from position i: the position after the white space
SkipSpaces(text, i) ==
  CHOOSE j \in i..(Len(text) + 1) :
    /\ \A k \in i..(j - 1) : IsSpace(text[k])
    /\ j = Len(text) + 1 \/ ~IsSpace(text[j])

\* .+ or .* taken greedily from position v: the last position of the line
LineEnd(text, v) ==
  CHOOSE e \in v..Len(text) :
    /\ \A k \in v..e : ~IsLineTerminator(text[k])
    /\ e = Len(text) \/ IsLineTerminator(text[e + 1])

\* PATTERNS.SOURCE tried at position i: label, \s*, separator, \s*, (.+);
\* the second \s* gives white space back until (.+) has a character
SourceAt(text, i) ==
  LET labels == {w \in SourceLabels : WordAt(text, i, w)}
  IN  IF labels = {} THEN NoMatch
      ELSE
        LET w == CHOOSE l \in labels : TRUE
            sep == SkipSpaces(text, i + Len(w))
        IN  IF sep > Len(text) THEN NoMatch
            ELSE IF text[sep] \notin Separators THEN NoMatch
            ELSE
              LET greedy == SkipSpaces(text, sep + 1)
                  starts == {v \in (sep + 1)..Min(greedy, Len(text)) :
                               ~IsLineTerminator(text[v])}
              IN  IF starts = {} THEN NoMatch
                  ELSE LET v == MaxOf(starts)
                           e == LineEnd(text, v)
                       IN  Match(i - 1, SubSeq(text, i, e),
                                 SubSeq(text, i, i + Len(w) - 1),
                                 SubSeq(text, v, e))

\* text.match(PATTERNS.SOURCE): the leftmost match
matchSOURCE(text) ==
  LET hits == {i \in 1..Len(text) : SourceAt(text, i).found}
  IN  IF hits = {} THEN NoMatch ELSE SourceAt(text, MinOf(hits))

\* [A-Z][a-z]+ at position c: its last position, 0 when it does not match
CapWordEnd(text, c) ==
  IF c + 1 > Len(text) THEN 0
  ELSE IF ~(IsUpper(text[c]) /\ IsLower(text[c + 1])) THEN 0
  ELSE CHOOSE e \in (c + 1)..Len(text) :
         /\ \A k \in (c + 1)..e : IsLower(text[k])
         /\ e = Len(text) \/ ~IsLower(text[e + 1])

\* (\s[A-Z][a-z]+)* taken greedily after position e: its last position
RECURSIVE TitleEnd(_, _)
TitleEnd(text, e) ==
  IF e + 1 > Len(text) THEN e
  ELSE IF ~IsSpace(text[e + 1]) THEN e
  ELSE IF CapWordEnd(text, e + 2) = 0 THEN e
  ELSE TitleEnd(text, CapWordEnd(text, e + 2))

\* PATTERNS.HELPER tried at position i: it, the optional apostrophe, s, \s*,
\* ([A-Z][a-z]+(\s[A-Z][a-z]+)*)
HelperAt(text, i) ==
  IF i + 1 > Len(text) THEN NoMatch
  ELSE IF ~(text[i] = "i" /\ text[i + 1] = "t") THEN NoMatch
  ELSE
    LET s == IF i + 2 <= Len(text) /\ text[Min(i + 2, Len(text))] \in Apostrophes
             THEN i + 3 ELSE i + 2
    IN  IF s > Len(text) THEN NoMatch
        ELSE IF text[s] # "s" THEN NoMatch
        ELSE
          LET c == SkipSpaces(text, s + 1)
              first == CapWordEnd(text, c)
          IN  IF first = 0 THEN NoMatch
              ELSE LET e == TitleEnd(text, first)
                   IN  Match(i - 1, SubSeq(text, i, e), SubSeq(text, c, e),
                             << >>)

\* text.match(PATTERNS.HELPER): the leftmost match
matchHELPER(text) ==
  LET hits == {i \in 1..Len(text) : HelperAt(text, i).found}
  IN  IF hits = {} THEN NoMatch ELSE HelperAt(text, MinOf(hits))

\* the closing brackets (.*?)\] can reach from the opening bracket at i
ClosingBrackets(text, i) ==
  {j \in (i + 1)..Len(text) :
     /\ text[j] = "]"
     /\ \A k \in (i + 1)..(j - 1) : ~IsLineTerminator(text[k])}

\* text.match(PATTERNS.BRACKET): the leftmost opening bracket that has a
\* closing bracket on its line, up to the nearest one
matchBRACKET(text) ==
  LET opens == {i \in 1..Len(text) :
                  text[i] = "[" /\ ClosingBrackets(text, i) # {}}
  IN  IF opens = {} THEN NoMatch
      ELSE LET i == MinOf(opens)
               j == MinOf(ClosingBrackets(text, i))
           IN  Match(i - 1, SubSeq(text, i, j), SubSeq(text, i + 1, j - 1),
                     << >>)

\* PATTERNS.QUESTION.test(text)
testQUESTION(text) ==
  \E i \in 1..Len(text), w \in QuestionWords :
     /\ WordAt(text, i, w)
     /\ i + Len(w) <= Len(text)
     /\ text[Min(i + Len(w), Len(text))] = "?"

\* String.indexOf: the first 0-based offset at which needle occurs in hay
indexOf(hay, needle) ==
  LET at == {j \in 0..(Len(hay) - Len(needle)) :
               SubSeq(hay, j + 1, j + Len(needle)) = needle}
  IN  IF at = {} THEN -1 ELSE MinOf(at)

\* Math.min(score, 100) left out
capNone(score) == score

\* Math.min(score, 100)
capScore(score) == Min(score, ScoreCap)

\* highlights.push({ start, end, type }) when the pattern matched
Highlight(match, start, length, type) ==
  IF match.found
  THEN << [start |-> start, end |-> start + length, type |-> type] >>
  ELSE << >>

analyzeComment(text) ==
  LET sourceMatch == matchSOURCE(text)
      helperMatch == matchHELPER(text)
      bracketMatch == matchBRACKET(text)
      valueStart == sourceMatch.index + indexOf(sourceMatch.m0, sourceMatch.m2)
      titleStart == helperMatch.index + indexOf(helperMatch.m0, helperMatch.m1)
      score == (IF sourceMatch.found THEN 80 ELSE 0)
                 + (IF helperMatch.found THEN 50 ELSE 0)
                 + (IF bracketMatch.found THEN 40 ELSE 0)
                 + (IF testQUESTION(text) THEN 10 ELSE 0)
  IN  [score |-> capScore(score),
       highlights |->
         Highlight(sourceMatch, valueStart, Len(sourceMatch.m2), "source")
           \o Highlight(helperMatch, titleStart, Len(helperMatch.m1), "helper")
           \o Highlight(bracketMatch, bracketMatch.index,
                        Len(bracketMatch.m0), "bracket")]

\* ------------------------------------------------------------- remote data
\* A comment resource as the mapper reads it: id, snippet.textOriginal,
\* snippet.totalReplyCount and item.replies (absent on these resources).
ApiComment(id, text, total) ==
  [id |-> id, textOriginal |-> text, totalReplyCount |-> total,
   hasReplies |-> FALSE, replies |-> <<>>]

\* A comment resource whose snippet has no totalReplyCount
ApiCommentBare(id, text) ==
  [id |-> id, textOriginal |-> text, hasReplies |-> FALSE, replies |-> <<>>]

\* A thread resource: snippet.topLevelComment, snippet.totalReplyCount (the
\* reply count the remote reports for the thread) and the optional
\* item.replies.
ApiThread(top, total, hasReplies, replies) ==
  [topLevelComment |-> top, totalReplyCount |-> total,
   hasReplies |-> hasReplies, replies |-> replies]

\* The thread pages the remote serves for videoId, by page token.
RemoteThreadPage(token) ==
  IF token = "" THEN
    [items |-> << ApiThread(ApiComment("A", {"SOURCE"}, 2), 2, FALSE, <<>>),
                  ApiThread(ApiComment("B", {"QUESTION"}, 1), 1, TRUE,
                            << ApiComment("B1", {"QUESTION"}, 0) >>),
                  ApiThread(ApiCommentBare("D", {"HELPER"}), 3, TRUE,
                            << ApiComment("D1", {}, 0) >>) >>,
     nextPageToken |-> "p2"]
  ELSE
    [items |-> << ApiThread(ApiComment("C", {}, 1), 1, FALSE, <<>>) >>,
     nextPageToken |-> Undefined]

\* The reply pages the remote serves for a parent comment, by page token.
RemoteReplyPage(parentId, token) ==
  IF parentId = "A" /\ token = "" THEN
    [items |-> << ApiComment("A1", {"BRACKET"}, 0) >>, nextPageToken |-> "r2"]
  ELSE IF parentId = "A" THEN
    [items |-> << ApiComment("A2", {}, 0) >>, nextPageToken |-> Undefined]
  ELSE IF parentId = "B" THEN
    [items |-> << ApiComment("B1", {"QUESTION"}, 0) >>,
     nextPageToken |-> Undefined]
  ELSE
    [items |-> << ApiComment("C1", {"HELPER"}, 0) >>, nextPageToken |-> Undefined]

\* data.nextPageToken || null
TokenOrNull(t) == IF t = Undefined \/ t = "" THEN Null ELSE t

\* ------------------------------------------------------------------- store
\* key order of the comments table (primary key id, ascending)
IdOrder == << "A", "A1", "A2", "B", "B1", "C", "C1", "D", "D1", "W1" >>

\* snippet.totalReplyCount || 0
OrZero(item) ==
  IF "totalReplyCount" \in DOMAIN item THEN item.totalReplyCount ELSE 0

\* a mapping that stores the comment without scoring it
mapUnscored(item, vid, parentId) ==
  [id |-> item.id,
   parentId |-> parentId,
   videoId |-> vid,
   textOriginal |-> item.textOriginal,
   replyCount |-> IF item.hasReplies THEN Len(item.replies)
                  ELSE OrZero(item),
   repliesFetched |-> FALSE,
   score |-> 0]

mapApiCommentToLocal(item, vid, parentId) ==
  [id |-> item.id,
   parentId |-> parentId,
   videoId |-> vid,
   textOriginal |-> item.textOriginal,
   replyCount |-> IF item.hasReplies THEN Len(item.replies)
                  ELSE OrZero(item),
   repliesFetched |-> FALSE,
   score |-> analyzeScore(item.textOriginal)]

\* the rows fetchCommentThreads builds for one thread resource
ThreadRows(item, vid) ==
  LET top == mapApiCommentToLocal(item.topLevelComment, vid, Null)
      replies == [i \in 1..Len(item.replies) |->
                    mapApiCommentToLocal(item.replies[i], vid, top.id)]
      fetched == item.hasReplies /\ Len(item.replies) >= top.replyCount
  IN  << [top EXCEPT !.repliesFetched = fetched] >> \o
      (IF item.hasReplies THEN replies ELSE <<>>)

RECURSIVE PageRows(_, _)
\* the comments array of fetchCommentThreads (for item of data.items)
PageRows(items, vid) ==
  IF items = <<>> THEN <<>>
  ELSE ThreadRows(Head(items), vid) \o PageRows(Tail(items), vid)

\* data.items.map(item => mapApiCommentToLocal(item, videoId, parentId))
ReplyRows(items, vid, parentId) ==
  [i \in 1..Len(items) |-> mapApiCommentToLocal(items[i], vid, parentId)]

\* an insert that keeps the row already stored under a key
bulkAddKeep(table, rows) ==
  LET ids == {rows[i].id : i \in 1..Len(rows)}
      first(id) == CHOOSE i \in 1..Len(rows) :
                     /\ rows[i].id = id
                     /\ \A j \in 1..Len(rows) : rows[j].id = id => i <= j
  IN  [id \in DOMAIN table \cup ids |->
         IF id \in DOMAIN table THEN table[id] ELSE rows[first(id)]]

\* db.comments.bulkPut(rows): upsert by primary key, later rows win
bulkPut(table, rows) ==
  LET ids == {rows[i].id : i \in 1..Len(rows)}
      last(id) == CHOOSE i \in 1..Len(rows) :
                    /\ rows[i].id = id
                    /\ \A j \in 1..Len(rows) : rows[j].id = id => j <= i
  IN  [id \in DOMAIN table \cup ids |->
         IF id \in ids THEN rows[last(id)] ELSE table[id]]

\* db.comments.update(key, { repliesFetched: true }): no row, no change
updateRepliesFetched(table, key) ==
  IF key \in DOMAIN table
  THEN [table EXCEPT ![key].repliesFetched = TRUE]
  ELSE table

\* db.comments.where('videoId').equals(vid).delete()
deleteWhereVideo(table, vid) ==
  [id \in {k \in DOMAIN table : table[k].videoId # vid} |-> table[id]]

\* db.comments.where('videoId').equals(vid) ... toArray(), in key order
RowsOfVideo(table, vid) ==
  LET keep(id) == id \in DOMAIN table /\ table[id].videoId = vid
      ids == SelectSeq(IdOrder, keep)
  IN  [i \in 1..Len(ids) |-> table[ids[i]]]

\* Collection.sortBy(keyPath) on 'score': the rows are sorted in place by
\* the score, ascending for order 1 and descending for order -1 (the order
\* of a reversed collection); rows of equal score keep their relative order
RECURSIVE sortInsert(_, _, _)
sortInsert(sorted, row, order) ==
  IF sorted = << >> THEN << row >>
  ELSE LET last == sorted[Len(sorted)]
       IN  IF (last.score - row.score) * order <= 0
           THEN Append(sorted, row)
           ELSE Append(sortInsert(SubSeq(sorted, 1, Len(sorted) - 1),
                                  row, order), last)

RECURSIVE sortBy(_, _)
sortBy(rows, order) ==
  IF rows = << >> THEN << >>
  ELSE sortInsert(sortBy(SubSeq(rows, 1, Len(rows) - 1), order),
                  rows[Len(rows)], order)

\* Collection.reverse(): the rows are read in descending index order
reverse(rows) == [i \in 1..Len(rows) |-> rows[Len(rows) + 1 - i]]

\* between([vid, lo], [vid, hi], true, true) on the index of any video
betweenAnyVideo(table, vid, lo, hi) ==
  LET keep(id) == /\ id \in DOMAIN table
                  /\ table[id].score >= lo /\ table[id].score <= hi
      ids == SelectSeq(IdOrder, keep)
  IN  sortBy([i \in 1..Len(ids) |-> table[ids[i]]], 1)

\* where('[videoId+score]').between([vid, lo], [vid, hi], true, true): the
\* rows of the compound index in that range, in index order (by score, rows
\* of equal score by primary key)
between(table, vid, lo, hi) ==
  LET keep(row) == row.score >= lo /\ row.score <= hi
  IN  sortBy(SelectSeq(RowsOfVideo(table, vid), keep), 1)

\* Dashboard: candidates = between([videoId, 1], [videoId, 100], true, true)
\* .reverse().sortBy('score')
candidatesQuery(table, vid) ==
  sortBy(reverse(between(table, vid, MinCandidateScore, MaxCandidateScore)),
         -1)

\* c => !c.parentId && !c.repliesFetched && c.replyCount > 0 && c.score > 10
IsPromising(c) ==
  /\ c.parentId = Null
  /\ ~c.repliesFetched
  /\ c.replyCount > 0
  /\ c.score > PromisingScore

\* c => !c.parentId && c.replyCount > 0 && !c.repliesFetched
IsUnexpanded(c) ==
  /\ c.parentId = Null
  /\ c.replyCount > 0
  /\ ~c.repliesFetched

\* the ids of a sequence of rows
Ids(rows) == {rows[i].id : i \in 1..Len(rows)}

\* the VideoMetadata row fetchVideoDetails stores
VideoMeta(vid) == [videoId |-> vid, scanStatus |-> "idle"]

\* the rows an earlier session left for the other video
OtherComments ==
  [id \in {"W1"} |->
     mapApiCommentToLocal(ApiComment(id, {"HELPER"}, 0), otherVideoId, Null)]

\* ------------------------------------------------------------------- state
VARIABLES
  comments,          \* db.comments: comment id -> row
  videos,            \* db.videos: videoId -> metadata row
  stats,             \* Dashboard state: ScanStats
  initError,         \* Dashboard state: initError
  cancelScanRef,     \* cancelScanRef.current
  runs,              \* the invocations of handleSmartScan / handleDeepScan
  initPc,            \* position of the initialization effect
  nclicks,           \* number of user clicks so far
  requestQueue,      \* youtubeService: requestQueue
  isProcessingQueue, \* youtubeService: isProcessingQueue
  current,           \* the queue task being executed, with its request in flight
  timerLeft,         \* remaining time of the worker's delay(250)
  sinceDispatch,     \* time since the last queue task was started (capped)
  sinceFetch,        \* time since the last remote request was started (capped)
  expanded,          \* parents whose reply pagination exhausted its token chain
  settled,           \* the remote response handled by the last step, if any
  clearPc,           \* position of handleClear between its awaits
  candidates,        \* Dashboard: the result of the candidates live query
  snippet,           \* the comment snippet handed to the scoring step
  analysis,          \* the outcome of the scoring step on the snippet
  sinkDown,          \* the analytics store rejects what is added to it
  tracked,           \* the AnalyticsSink calls issued by the last step
  searchHistory      \* db.searchHistory: the entries, oldest first

vars == << comments, videos, stats, initError, cancelScanRef, runs, initPc,
           nclicks, requestQueue, isProcessingQueue, current, timerLeft,
           sinceDispatch, sinceFetch, expanded, settled, clearPc,
           candidates,
                  snippet,
                  analysis,
                  sinkDown,
                  tracked,
                  searchHistory >>

\* one invocation per click, and the one of the initialization effect
Runs == 1..(MaxClicks + 1)

\* the caller id of the initialization effect (runs are numbered from 1)
InitCaller == 0

NoTask == [kind |-> "none", caller |-> 0, parentId |-> "", pageToken |-> ""]

\* the scoring step has not run on the snippet
NoAnalysis == [outcome |-> "none", thrown |-> Undefined,
               result |-> [score |-> 0, highlights |-> << >>]]

\* useLiveQuery before its first result (undefined)
NoQuery == [videoId |-> "", rows |-> << >>]

\* a free slot.  For a running invocation, cancelSeen records whether
\* stopScan was clicked during it ("inflight": with a request of the run
\* queued or in flight, "settled": and that request has settled, "nocall":
\* with no request pending), doneAtStart the parents that were already
\* fully expanded when it started and, while the run waits for its thread
\* query, eligible the stored threads that met the selection filter of its
\* mode at the moment the claims speak of (smart: when the run had written
\* the thread page; deep: when the run was started), closureCount the
\* fetchedCount of the stats object the invocation closes over.
NoRun == [pc |-> "none", mode |-> Null, pageToken |-> "", threads |-> <<>>,
          totalFetched |-> 0, cancelSeen |-> "no", doneAtStart |-> {},
          eligible |-> {}, closureCount |-> 0]

Active(r) == runs[r].pc # "none"

\* no response was handled.  Otherwise: the endpoint (kind) and the HTTP
\* status of the response, the message of the Error the operation threw to
\* its caller (thrown) and the value it returned (value; "more" while
\* fetchReplies goes on to its next page).
NoCall == [kind |-> "none", status |-> 0, thrown |-> Undefined,
           value |-> Undefined]

Response(kind, status, thrown, value) ==
  [kind |-> kind, status |-> status, thrown |-> thrown, value |-> value]

\* the slot a new invocation takes
FreeSlot(c) == CHOOSE r \in Runs :
                 c.runs[r].pc = "none" /\ \A q \in Runs : c.runs[q].pc = "none" => r <= q

\* a run that waits for a queue task it enqueued
Awaiting(pc) == pc \in {"await_meta", "await_threads", "await_replies"}

\* ------------------------------------------------------------ request queue
\* a timer that does not wait
delayNone(ms) == 0

\* the timer of delay(ms)
delay(ms) == ms

\* a shift that takes the most recently pushed task
ShiftLast(q) == Len(q)

\* index of the task requestQueue.shift() takes
ShiftIndex(q) == 1

RemoveAt(q, i) == SubSeq(q, 1, i - 1) \o SubSeq(q, i + 1, Len(q))

\* The values a synchronous continuation reads and writes.
Ctx == [runs |-> runs, stats |-> stats, cancel |-> cancelScanRef,
        expanded |-> expanded, initError |-> initError, initPc |-> initPc,
        q |-> requestQueue, proc |-> isProcessingQueue, cur |-> current,
        settled |-> NoCall, sinkDown |-> sinkDown, tracked |-> << >>,
        searchHistory |-> searchHistory]

\* processQueue: the guard, and the loop up to the first await of the task
processQueue(c) ==
  IF c.proc THEN c
  ELSE IF Len(c.q) > 0
       THEN [c EXCEPT !.proc = TRUE,
                      !.cur = c.q[ShiftIndex(c.q)],
                      !.q = RemoveAt(c.q, ShiftIndex(c.q))]
       ELSE c

\* an enqueueRequest that pushes the task and leaves the worker alone
enqueueOnly(c, kind, caller, parentId, pageToken) ==
  [c EXCEPT !.q = Append(@, [kind |-> kind, caller |-> caller,
                            parentId |-> parentId, pageToken |-> pageToken])]

\* enqueueRequest: push the wrapped request, then call processQueue()
enqueueRequest(c, kind, caller, parentId, pageToken) ==
  LET task == [kind |-> kind, caller |-> caller, parentId |-> parentId,
               pageToken |-> pageToken]
  IN  processQueue([c EXCEPT !.q = Append(c.q, task)])

\* ---------------------------------------------------------------- analytics
\* a trackAnalyticsEvent whose failed add reaches the code that called it
trackRethrows(c, eventType, detail) ==
  LET logged == [c EXCEPT !.tracked =
                   Append(@, [eventType |-> eventType, detail |-> detail,
                              stored |-> ~c.sinkDown])]
  IN  IF c.sinkDown
      THEN [logged EXCEPT !.stats.status = "error",
                          !.stats.error = "analytics"]
      ELSE logged

\* trackAnalyticsEvent: try { await db.analyticsEvents.add(event) } catch {}.
\* The callers do not await the promise; a rejected add is swallowed.
trackAnalyticsEvent(c, eventType, detail) ==
  [c EXCEPT !.tracked =
     Append(@, [eventType |-> eventType, detail |-> detail,
                stored |-> ~c.sinkDown])]

\* the wrappers of trackAnalyticsEvent; of the metadata of an event one
\* value is kept (the endpoint, the scan mode, the message, the count)
trackApiCall(c, endpoint) == trackAnalyticsEvent(c, "api_call", endpoint)
trackScanStarted(c, mode) == trackAnalyticsEvent(c, "scan_started", mode)
trackScanCompleted(c, mode, commentCount) ==
  trackAnalyticsEvent(c, "scan_completed", mode)
trackScanPaused(c) == trackAnalyticsEvent(c, "scan_paused", Undefined)
trackScanError(c, error) == trackAnalyticsEvent(c, "scan_error", error)
trackCommentsFetched(c, count) ==
  trackAnalyticsEvent(c, "comments_fetched", count)

\* ---------------------------------------------------------- scan controller
\* db.searchHistory when the page is opened: App.tsx has added an entry for
\* the submitted URL; an earlier entry of the same video and an entry of
\* another video are there too.  No results count has been recorded.
InitialHistory ==
  << [videoId |-> videoId, timestamp |-> 1, resultsCount |-> Undefined],
     [videoId |-> otherVideoId, timestamp |-> 2, resultsCount |-> Undefined],
     [videoId |-> videoId, timestamp |-> 3, resultsCount |-> Undefined] >>

\* where('videoId').equals(vid).reverse().sortBy('timestamp')[0]: the index
\* of the most recent entry of the video, 0 if it has none
MostRecent(history, vid) ==
  LET own == {i \in DOMAIN history : history[i].videoId = vid}
  IN  IF own = {} THEN 0
      ELSE CHOOSE i \in own :
             \A j \in own : history[j].timestamp <= history[i].timestamp

\* an update that records the count on the oldest entry of the video
updateOldestEntry(c, vid, resultsCount) ==
  LET own == {i \in DOMAIN c.searchHistory : c.searchHistory[i].videoId = vid}
  IN  IF own = {} THEN c
      ELSE [c EXCEPT !.searchHistory[CHOOSE i \in own : \A j \in own : i <= j]
                        .resultsCount = resultsCount]

\* updateSearchHistoryWithResultsCount: db.searchHistory.update(mostRecent.id,
\* { resultsCount })
updateSearchHistoryWithResultsCount(c, vid, resultsCount) ==
  LET m == MostRecent(c.searchHistory, vid)
  IN  IF m = 0 THEN c
      ELSE [c EXCEPT !.searchHistory[m].resultsCount = resultsCount]

\* after the loop of handleSmartScan: setStats(complete); if not cancelled,
\* trackScanCompleted(totalFetched) and
\* updateSearchHistoryWithResultsCount(videoId, stats.fetchedCount), stats
\* being the object the callback closes over
SmartFinish(c, r) ==
  LET done == [c EXCEPT !.stats.status = "complete", !.runs[r] = NoRun]
  IN  IF ~c.cancel
      THEN updateSearchHistoryWithResultsCount(
             trackScanCompleted(done, "smart", c.runs[r].totalFetched),
             videoId, c.runs[r].closureCount)
      ELSE done

\* a loop that asks for the first page on every iteration
SmartWhileFirstPage(c, r) ==
  IF c.runs[r].pageToken # Null /\ ~c.cancel
  THEN enqueueRequest([c EXCEPT !.runs[r].pc = "await_threads"],
                      "commentThreads", r, "", "")
  ELSE SmartFinish(c, r)

\* while (pageToken !== null && !cancelScanRef.current) fetchCommentThreads
SmartWhile(c, r) ==
  IF c.runs[r].pageToken # Null /\ ~c.cancel
  THEN enqueueRequest([c EXCEPT !.runs[r].pc = "await_threads"],
                      "commentThreads", r, "", c.runs[r].pageToken)
  ELSE SmartFinish(c, r)

\* for (const thread of promisingThreads) { if (cancel) break; fetchReplies }
SmartFor(c, r) ==
  IF Len(c.runs[r].threads) > 0 /\ ~c.cancel
  THEN enqueueRequest([c EXCEPT !.runs[r].pc = "await_replies"],
                      "comments", r, Head(c.runs[r].threads).id, "")
  ELSE SmartWhile([c EXCEPT !.runs[r].threads = <<>>], r)

\* the tail of handleDeepScan: leave the for loop
DeepFinish(c, r) ==
  LET done == [c EXCEPT !.stats.status = "complete", !.runs[r] = NoRun]
  IN  IF ~c.cancel
      THEN updateSearchHistoryWithResultsCount(
             trackScanCompleted(done, "deep", c.runs[r].totalFetched),
             videoId, c.runs[r].closureCount)
      ELSE done

\* for (i < threads.length) { if (cancel) break; fetchReplies(t.id) ... }
DeepFor(c, r) ==
  IF Len(c.runs[r].threads) > 0 /\ ~c.cancel
  THEN enqueueRequest([c EXCEPT !.runs[r].pc = "await_replies"],
                      "comments", r, Head(c.runs[r].threads).id, "")
  ELSE DeepFinish(c, r)

\* a catch block that only reports the error and leaves the scan state as
\* it is
CatchQuiet(c, r, message) ==
  trackScanError([c EXCEPT !.runs[r] = NoRun], message)

\* catch (e) { setStats(prev => ({ ...prev, status: 'error', error })) }
Catch(c, r, message) ==
  trackScanError([c EXCEPT !.stats.status = "error",
                           !.stats.error = message,
                           !.runs[r] = NoRun], message)

\* useState({ fetchedCount: 0, ... }): the fetchedCount of the stats object
\* of the first render, the one the memoised handleSmartScan closes over
\* (useCallback with dependencies [videoId, apiKey])
InitialCount == 0

\* handleSmartScan up to its first await (db.videos.get)
handleSmartScan(c) ==
  LET r == FreeSlot(c)
  IN  trackScanStarted(
        [c EXCEPT !.cancel = FALSE,
                  !.stats.status = "running",
                  !.stats.mode = "smart",
                  !.stats.error = Undefined,
                  !.runs[r] = [NoRun EXCEPT !.pc = "meta_get",
                                            !.mode = "smart",
                                            !.closureCount = InitialCount,
                                            !.doneAtStart = c.expanded]],
        "smart")

\* handleDeepScan up to its first await (the thread query)
handleDeepScan(c) ==
  LET r == FreeSlot(c)
  IN  trackScanStarted(
        [c EXCEPT !.cancel = FALSE,
                  !.stats.status = "running",
                  !.stats.mode = "deep",
                  !.runs[r] = [NoRun EXCEPT !.pc = "deep_query",
                                            !.mode = "deep",
                                            !.closureCount =
                                               c.stats.fetchedCount,
                                            !.doneAtStart = c.expanded,
                                            !.eligible = Ids(SelectSeq(
                                               RowsOfVideo(comments, videoId),
                                               IsUnexpanded))]],
        "deep")

\* the progress callback handleSmartScan passes to fetchCommentThreads
onProgress(c, r, count) ==
  [c EXCEPT !.runs[r].totalFetched = @ + count,
            !.stats.fetchedCount = @ + count]

\* ------------------------------------------------------------------ actions
\* Write back the values a continuation computed.  A remote request starts
\* when a task is started or fetchReplies moves to its next page.
Commit(c) ==
  /\ runs' = c.runs
  /\ stats' = c.stats
  /\ cancelScanRef' = c.cancel
  /\ initError' = c.initError
  /\ initPc' = c.initPc
  /\ requestQueue' = c.q
  /\ isProcessingQueue' = c.proc
  /\ current' = c.cur
  /\ settled' = c.settled
  /\ clearPc' = clearPc
  /\ candidates' = candidates
  /\ snippet' = snippet
  /\ analysis' = analysis
  /\ sinkDown' = sinkDown
  /\ searchHistory' = c.searchHistory
  /\ tracked' = c.tracked
  /\ sinceDispatch' = IF c.cur # NoTask /\ current = NoTask
                      THEN 0 ELSE sinceDispatch
  /\ sinceFetch' = IF c.cur # NoTask /\ c.cur # current
                   THEN 0 ELSE sinceFetch

\* the in-flight call of the task's caller has settled
CallSettled(c, caller) ==
  IF caller \in Runs /\ c.runs[caller].cancelSeen = "inflight"
  THEN [c EXCEPT !.runs[caller].cancelSeen = "settled"]
  ELSE c

\* a worker that a rejected task stops
TaskDoneStops(c) ==
  IF c.settled.thrown # Undefined
  THEN [c EXCEPT !.cur = NoTask, !.proc = FALSE]
  ELSE [c EXCEPT !.cur = NoTask]

\* the wrapped request has settled: await task() returns, await delay(250)
TaskDone(c) == [c EXCEPT !.cur = NoTask]

Init ==
  /\ comments = OtherComments
  /\ videos \in { [v \in {otherVideoId} |-> VideoMeta(v)],
                  [v \in {otherVideoId, videoId} |-> VideoMeta(v)] }
  /\ stats = [fetchedCount |-> 0, totalEstimated |-> 0, status |-> "idle",
              mode |-> Null, error |-> Undefined]
  /\ initError = Null
  /\ cancelScanRef = FALSE
  /\ runs = [r \in Runs |-> NoRun]
  /\ initPc = "get"
  /\ requestQueue = <<>>
  /\ isProcessingQueue = FALSE
  /\ current = NoTask
  /\ nclicks = 0
  /\ timerLeft = 0
  /\ sinceDispatch = MinInterval
  /\ sinceFetch = MinInterval
  /\ expanded = {}
  /\ settled = NoCall
  /\ clearPc = "none"
  /\ candidates = NoQuery
  /\ snippet = [likeCount |-> 0, textOriginal |-> << >>]
  /\ analysis = NoAnalysis
  /\ sinkDown = FALSE
  /\ tracked = << >>
  /\ searchHistory = InitialHistory

\* init(): const meta = await db.videos.get(videoId)
InitGet ==
  /\ initPc = "get"
  /\ IF videoId \in DOMAIN videos
     THEN Commit([Ctx EXCEPT !.initPc = "count"])
     ELSE Commit(enqueueRequest([Ctx EXCEPT !.initPc = "await_meta"],
                                "videos", InitCaller, "", ""))
  /\ UNCHANGED << comments, videos, nclicks, timerLeft, expanded >>

\* init(): count = await db.comments.where('videoId').equals(videoId).count()
InitCount ==
  /\ initPc = "count"
  /\ LET count == Cardinality({id \in DOMAIN comments :
                                 comments[id].videoId = videoId})
         c == [Ctx EXCEPT !.initPc = "done"]
     IN  Commit(IF count = 0 THEN handleSmartScan(c) ELSE c)
  /\ UNCHANGED << comments, videos, nclicks, timerLeft, expanded >>

\* the Smart Scan button (rendered while status is not running)
ClickSmartScan ==
  /\ stats.status # "running"
  /\ initError = Null
  /\ nclicks < MaxClicks
  /\ nclicks' = nclicks + 1
  /\ Commit(handleSmartScan(Ctx))
  /\ UNCHANGED << comments, videos, timerLeft, expanded >>

\* the Deep Scan button (rendered while status is not running)
ClickDeepScan ==
  /\ stats.status # "running"
  /\ initError = Null
  /\ nclicks < MaxClicks
  /\ nclicks' = nclicks + 1
  /\ Commit(handleDeepScan(Ctx))
  /\ UNCHANGED << comments, videos, timerLeft, expanded >>

\* the Stop button (rendered while status is running)
stopScan ==
  /\ stats.status = "running"
  /\ nclicks < MaxClicks
  /\ nclicks' = nclicks + 1
  /\ Commit(trackScanPaused([Ctx EXCEPT
       !.cancel = TRUE,
       !.stats.status = "paused",
       !.runs = [r \in Runs |->
                   IF Active(r)
                   THEN [runs[r] EXCEPT !.cancelSeen =
                           IF Awaiting(runs[r].pc) THEN "inflight"
                           ELSE "nocall"]
                   ELSE runs[r]]]))
  /\ UNCHANGED << comments, videos, timerLeft, expanded >>

\* handleSmartScan after await db.videos.get(videoId)
SmartMetaGet(r) ==
  /\ runs[r].pc = "meta_get"
  /\ IF videoId \in DOMAIN videos
     THEN Commit(SmartWhile(Ctx, r))
     ELSE Commit(enqueueRequest([Ctx EXCEPT !.runs[r].pc = "await_meta"],
                                "videos", r, "", ""))
  /\ UNCHANGED << comments, videos, nclicks, timerLeft, expanded >>

\* handleSmartScan after the promising-thread query
SmartQuery(r) ==
  /\ runs[r].pc = "query"
  /\ Commit(SmartFor([Ctx EXCEPT
              !.runs[r].threads =
                 SelectSeq(RowsOfVideo(comments, videoId), IsPromising),
              !.runs[r].eligible = {}], r))
  /\ UNCHANGED << comments, videos, nclicks, timerLeft, expanded >>

\* handleDeepScan after the query of the threads to expand
DeepQuery(r) ==
  /\ runs[r].pc = "deep_query"
  /\ Commit(DeepFor([Ctx EXCEPT
              !.runs[r].threads =
                 SelectSeq(RowsOfVideo(comments, videoId), IsUnexpanded),
              !.runs[r].eligible = {}], r))
  /\ UNCHANGED << comments, videos, nclicks, timerLeft, expanded >>

\* the continuation of the caller that awaited fetchVideoDetails
AfterVideoDetails(c, caller, found) ==
  IF caller = InitCaller
  THEN IF found
       THEN handleSmartScan([c EXCEPT !.initPc = "done"])
       ELSE [c EXCEPT !.initPc = "done",
                      !.initError = "Could not fetch video details."]
  ELSE SmartWhile(c, caller)

\* fetchVideoDetails: the response to GET /videos.  The status is not
\* looked at; only a successful response carries items (found).
VideosResponse(status, found) ==
  /\ current.kind = "videos"
  /\ found => ResOk(status)
  /\ videos' = IF found
               THEN [v \in DOMAIN videos \cup {videoId} |->
                       IF v = videoId THEN VideoMeta(v) ELSE videos[v]]
               ELSE videos
  /\ LET c == trackApiCall(
                [CallSettled(Ctx, current.caller) EXCEPT !.settled =
                   Response("videos", status, Undefined,
                            IF found THEN "meta" ELSE Null)], "videos")
     IN  Commit(TaskDone(AfterVideoDetails(c, current.caller, found)))
  /\ timerLeft' = delay(MinInterval)
  /\ UNCHANGED << comments, nclicks, expanded >>

\* a fetchCommentThreads that looks at the status after it has written and
\* reported the page
ThreadsResponseLate(status) ==
  /\ current.kind = "commentThreads"
  /\ LET r == current.caller
         data == RemoteThreadPage(current.pageToken)
         rows == PageRows(data.items, videoId)
         token == TokenOrNull(data.nextPageToken)
         thrown == IF status = Forbidden THEN "Quota Exceeded"
                   ELSE IF ~ResOk(status) THEN "Network Error"
                   ELSE Undefined
         c == trackApiCall(
                [CallSettled(Ctx, r) EXCEPT !.settled =
                   Response("commentThreads", status, thrown,
                            IF thrown = Undefined THEN token ELSE Undefined)],
                "commentThreads")
     IN  /\ comments' = bulkPut(comments, rows)
         /\ IF thrown # Undefined
            THEN Commit(TaskDone(Catch(onProgress(c, r, Len(rows)), r,
                                       thrown)))
            ELSE Commit(TaskDone([trackCommentsFetched(
                                     onProgress(c, r, Len(rows)), Len(rows))
                                   EXCEPT
                                    !.runs[r].pageToken = token,
                                    !.runs[r].pc = "query",
                                    !.runs[r].eligible =
                                       {id \in Ids(rows) :
                                          IsPromising(comments'[id])}]))
  /\ timerLeft' = delay(MinInterval)
  /\ UNCHANGED << videos, nclicks, expanded >>

\* fetchCommentThreads: the response to GET /commentThreads
ThreadsResponse(status) ==
  /\ current.kind = "commentThreads"
  /\ LET r == current.caller
         data == RemoteThreadPage(current.pageToken)
         rows == PageRows(data.items, videoId)
         token == TokenOrNull(data.nextPageToken)
         thrown == IF status = Forbidden THEN "Quota Exceeded"
                   ELSE IF ~ResOk(status) THEN "Network Error"
                   ELSE Undefined
         c == trackApiCall(
                [CallSettled(Ctx, r) EXCEPT !.settled =
                   Response("commentThreads", status, thrown,
                            IF thrown = Undefined THEN token ELSE Undefined)],
                "commentThreads")
     IN  IF thrown # Undefined
         THEN /\ Commit(TaskDone(Catch(c, r, thrown)))
              /\ comments' = comments
         ELSE /\ comments' = bulkPut(comments, rows)
              /\ Commit(TaskDone([trackCommentsFetched(
                                     onProgress(c, r, Len(rows)), Len(rows))
                                   EXCEPT
                                    !.runs[r].pageToken = token,
                                    !.runs[r].pc = "query",
                                    !.runs[r].eligible =
                                       {id \in Ids(rows) :
                                          IsPromising(comments'[id])}]))
  /\ timerLeft' = delay(MinInterval)
  /\ UNCHANGED << videos, nclicks, expanded >>

\* the continuation of the run that awaited fetchReplies
AfterReplies(c, r) ==
  LET t == Head(c.runs[r].threads)
      rest == [c EXCEPT !.runs[r].threads = Tail(@)]
  IN  IF c.runs[r].mode = "smart"
      THEN SmartFor(rest, r)
      ELSE DeepFor([rest EXCEPT !.runs[r].totalFetched = @ + t.replyCount,
                                !.stats.fetchedCount = @ + t.replyCount], r)

\* a fetchReplies that throws on a failed page, as fetchCommentThreads does
ReplyNotOkThrows(c, r) == Catch(c, r, "Network Error")

\* fetchReplies: if (!res.ok) break; the promise resolves and the awaiting
\* loop of the run goes on
ReplyNotOk(c, r) == AfterReplies(c, r)

\* fetchReplies: the response to one GET /comments of the pagination loop
RepliesResponse(status) ==
  /\ current.kind = "comments"
  /\ LET r == current.caller
         p == current.parentId
         data == RemoteReplyPage(p, current.pageToken)
         rows == ReplyRows(data.items, videoId, p)
         token == TokenOrNull(data.nextPageToken)
         c == [CallSettled(Ctx, r) EXCEPT !.settled =
                 Response("comments", status, Undefined,
                          IF ResOk(status) /\ token # Null THEN "more"
                          ELSE Undefined)]
     IN  IF ~ResOk(status)
         THEN \* break; then mark the parent as fetched
              /\ comments' = updateRepliesFetched(comments, p)
              /\ Commit(TaskDone(ReplyNotOk(c, r)))
              /\ timerLeft' = delay(MinInterval)
              /\ expanded' = expanded
         ELSE IF token = Null
         THEN /\ comments' = updateRepliesFetched(bulkPut(comments, rows), p)
              /\ Commit(TaskDone(AfterReplies(c, r)))
              /\ timerLeft' = delay(MinInterval)
              /\ expanded' = expanded \cup {p}
         ELSE \* next iteration of while (pageToken !== null)
              /\ comments' = bulkPut(comments, rows)
              /\ Commit([c EXCEPT !.cur.pageToken = token])
              /\ UNCHANGED << timerLeft, expanded >>
  /\ UNCHANGED << videos, nclicks >>

\* processQueue: delay(250) has elapsed, next iteration of the while loop
DelayElapsed ==
  /\ isProcessingQueue
  /\ current = NoTask
  /\ timerLeft = 0
  /\ Commit(processQueue([Ctx EXCEPT !.proc = FALSE]))
  /\ UNCHANGED << comments, videos, nclicks, timerLeft, expanded >>

\* the Clear Data button: resetDatabaseForVideo, then setStats to idle, with
\* no other step between the handler's two awaits
handleClear ==
  /\ clearPc = "none"
  /\ nclicks < MaxClicks
  /\ nclicks' = nclicks + 1
  /\ comments' = deleteWhereVideo(comments, videoId)
  /\ videos' = [v \in DOMAIN videos \ {videoId} |-> videos[v]]
  /\ stats' = [fetchedCount |-> 0, totalEstimated |-> 0, status |-> "idle",
               mode |-> Null, error |-> Undefined]
  /\ expanded' = {}
  /\ runs' = [r \in Runs |-> [runs[r] EXCEPT !.doneAtStart = {},
                                              !.eligible = {}]]
  /\ settled' = NoCall
  /\ tracked' = << >>
  /\ UNCHANGED << initError, cancelScanRef, initPc, requestQueue,
                  isProcessingQueue, current, timerLeft, sinceDispatch,
                  sinceFetch, clearPc, candidates,
                  snippet,
                  analysis,
                  sinkDown,
                  searchHistory >>

\* the Clear Data button, up to the first await of resetDatabaseForVideo:
\* await db.comments.where('videoId').equals(videoId).delete()
handleClearComments ==
  /\ clearPc = "none"
  /\ nclicks < MaxClicks
  /\ nclicks' = nclicks + 1
  /\ comments' = deleteWhereVideo(comments, videoId)
  /\ clearPc' = "videos"
  /\ expanded' = {}
  /\ runs' = [r \in Runs |-> [runs[r] EXCEPT !.doneAtStart = {},
                                              !.eligible = {}]]
  /\ settled' = NoCall
  /\ tracked' = << >>
  /\ UNCHANGED << videos, stats, initError, cancelScanRef, initPc,
                  requestQueue, isProcessingQueue, current, timerLeft,
                  sinceDispatch, sinceFetch, candidates,
                  snippet,
                  analysis,
                  sinkDown,
                  searchHistory >>

\* the rest of the handler: await db.videos.delete(videoId), then setStats
handleClearVideos ==
  /\ clearPc = "videos"
  /\ videos' = [v \in DOMAIN videos \ {videoId} |-> videos[v]]
  /\ stats' = [fetchedCount |-> 0, totalEstimated |-> 0, status |-> "idle",
               mode |-> Null, error |-> Undefined]
  /\ clearPc' = "none"
  /\ settled' = NoCall
  /\ tracked' = << >>
  /\ UNCHANGED << comments, initError, cancelScanRef, runs, initPc, nclicks,
                  requestQueue, isProcessingQueue, current, timerLeft,
                  sinceDispatch, sinceFetch, expanded, candidates,
                  snippet,
                  analysis,
                  sinkDown,
                  searchHistory >>

\* time passes, at most up to the moment the worker's timer is due; the two
\* stopwatches stop counting at MinInterval
Tick ==
  /\ timerLeft > 0 \/ sinceDispatch < MinInterval \/ sinceFetch < MinInterval
  /\ LET ms == IF timerLeft > 0 THEN Min(TickMs, timerLeft) ELSE TickMs
     IN  /\ timerLeft' = Max(timerLeft - ms, 0)
         /\ sinceDispatch' = Min(sinceDispatch + ms, MinInterval)
         /\ sinceFetch' = Min(sinceFetch + ms, MinInterval)
  /\ settled' = NoCall
  /\ tracked' = << >>
  /\ UNCHANGED << comments, videos, stats, initError, cancelScanRef, runs,
                  initPc, nclicks, requestQueue, isProcessingQueue, current,
                  expanded, clearPc, candidates,
                  snippet,
                  analysis,
                  sinkDown,
                  searchHistory >>

Next ==
  \/ InitGet
  \/ InitCount
  \/ ClickSmartScan
  \/ ClickDeepScan
  \/ stopScan
  \/ \E r \in Runs : SmartMetaGet(r)
  \/ \E r \in Runs : SmartQuery(r)
  \/ \E r \in Runs : DeepQuery(r)
  \/ \E status \in Statuses, found \in BOOLEAN : VideosResponse(status, found)
  \/ \E status \in Statuses : ThreadsResponse(status)
  \/ \E status \in Statuses : RepliesResponse(status)
  \/ DelayElapsed
  \/ handleClear
  \/ Tick

Spec == Init /\ [][Next]_vars

\* the page with only the Clear Data button used: the scans are the ones
\* the initialization effect starts, and the handler of the button is
\* interleaved with them at its awaits
NextClear ==
  \/ InitGet
  \/ InitCount
  \/ \E r \in Runs : SmartMetaGet(r)
  \/ \E r \in Runs : SmartQuery(r)
  \/ \E status \in Statuses, found \in BOOLEAN : VideosResponse(status, found)
  \/ \E status \in Statuses : ThreadsResponse(status)
  \/ \E status \in Statuses : RepliesResponse(status)
  \/ DelayElapsed
  \/ handleClearComments
  \/ handleClearVideos
  \/ Tick

SpecClear == Init /\ [][NextClear]_vars

\* the analytics store stops accepting what is added to it (db.analyticsEvents
\* .add rejects), or accepts it again
SinkFails ==
  /\ sinkDown' = ~sinkDown
  /\ settled' = NoCall
  /\ tracked' = << >>
  /\ UNCHANGED << comments, videos, stats, initError, cancelScanRef, runs,
                  initPc, nclicks, requestQueue, isProcessingQueue, current,
                  timerLeft, sinceDispatch, sinceFetch, expanded, clearPc,
                  candidates, snippet, analysis,
                  searchHistory >>

\* the page with the Deep Scan and Stop buttons used, the smart scan being
\* the one the initialization effect starts, over an analytics store that
\* may fail
NextTrack ==
  \/ InitGet
  \/ InitCount
  \/ ClickDeepScan
  \/ stopScan
  \/ \E r \in Runs : SmartMetaGet(r)
  \/ \E r \in Runs : SmartQuery(r)
  \/ \E r \in Runs : DeepQuery(r)
  \/ \E status \in Statuses, found \in BOOLEAN : VideosResponse(status, found)
  \/ \E status \in Statuses : ThreadsResponse(status)
  \/ \E status \in Statuses : RepliesResponse(status)
  \/ DelayElapsed
  \/ Tick
  \/ SinkFails

SpecTrack == Init /\ [][NextTrack]_vars

\* the page with the Smart Scan button only: the scans the button and the
\* initialization effect start share the request queue
NextSmart ==
  \/ InitGet
  \/ InitCount
  \/ ClickSmartScan
  \/ \E r \in Runs : SmartMetaGet(r)
  \/ \E r \in Runs : SmartQuery(r)
  \/ \E status \in Statuses, found \in BOOLEAN : VideosResponse(status, found)
  \/ \E status \in Statuses : ThreadsResponse(status)
  \/ \E status \in Statuses : RepliesResponse(status)
  \/ DelayElapsed
  \/ Tick

SpecSmart == Init /\ [][NextSmart]_vars

\* what the event loop runs by itself: a completed store request, a remote
\* response that has arrived, the timer of the worker
SmartSystem ==
  \/ InitGet
  \/ InitCount
  \/ \E r \in Runs : SmartMetaGet(r)
  \/ \E r \in Runs : SmartQuery(r)
  \/ \E status \in Statuses, found \in BOOLEAN : VideosResponse(status, found)
  \/ \E status \in Statuses : ThreadsResponse(status)
  \/ \E status \in Statuses : RepliesResponse(status)
  \/ DelayElapsed
  \/ Tick

\* a job of the event loop is pending: a store request of a handler has
\* completed, a remote request is in flight, the worker's timer runs or is
\* due, or time has yet to pass.  This is ENABLED <<SmartSystem>>_vars
\* written out from the guards of the steps.
Pending ==
  \/ initPc \in {"get", "count"}
  \/ \E r \in Runs : runs[r].pc \in {"meta_get", "query"}
  \/ current # NoTask
  \/ isProcessingQueue /\ current = NoTask /\ timerLeft = 0
  \/ timerLeft > 0 \/ sinceDispatch < MinInterval \/ sinceFetch < MinInterval

\* time passes, the event loop does not stop while a job is pending, and
\* every remote call settles: weak fairness of the system steps,
\* WF_vars(SmartSystem), with its enabling condition given by Pending
LiveSmart ==
  /\ SpecSmart
  /\ WF_vars(Tick)
  /\ ([]<>(~Pending) \/ []<><<SmartSystem>>_vars)

\* Pending is the enabling condition of the system steps (an invariant of
\* SpecSmart)
PendingIsEnabled == Pending <=> ENABLED <<SmartSystem>>_vars

\* what the event loop runs by itself when the Deep Scan button is used too
ScanSystem ==
  \/ SmartSystem
  \/ \E r \in Runs : DeepQuery(r)

\* a job of the event loop is pending, the thread query of a deep scan
\* included: ENABLED <<ScanSystem>>_vars
PendingScan ==
  \/ Pending
  \/ \E r \in Runs : runs[r].pc = "deep_query"

\* the page with the Deep Scan and Stop buttons used, the smart scan being
\* the one the initialization effect starts
NextScan ==
  \/ InitGet
  \/ InitCount
  \/ ClickDeepScan
  \/ stopScan
  \/ \E r \in Runs : SmartMetaGet(r)
  \/ \E r \in Runs : SmartQuery(r)
  \/ \E r \in Runs : DeepQuery(r)
  \/ \E status \in Statuses, found \in BOOLEAN : VideosResponse(status, found)
  \/ \E status \in Statuses : ThreadsResponse(status)
  \/ \E status \in Statuses : RepliesResponse(status)
  \/ DelayElapsed
  \/ Tick

SpecScan == Init /\ [][NextScan]_vars

\* SpecScan in which time passes, with weak fairness of the system steps,
\* WF_vars(ScanSystem), its enabling condition given by PendingScan: the
\* clicks may or may not happen
LiveScan ==
  /\ SpecScan
  /\ WF_vars(Tick)
  /\ ([]<>(~PendingScan) \/ []<><<ScanSystem>>_vars)

\* PendingScan is the enabling condition of the system steps (an invariant
\* of SpecScan)
PendingScanIsEnabled == PendingScan <=> ENABLED <<ScanSystem>>_vars

\* the comment ids and the texts the store contents are built from
QueryIds == {IdOrder[i] : i \in 1..MaxRows}
QueryTexts == {{}, {"QUESTION"}, {"HELPER"}, {"SOURCE", "HELPER"}}

\* db.comments.bulkPut of one mapped comment of any video; the live query
\* is stale until it has run again
StorePut(id, vid, text) ==
  /\ comments' = bulkPut(comments,
                         << mapApiCommentToLocal(ApiComment(id, text, 0),
                                                 vid, Null) >>)
  /\ candidates' = NoQuery
  /\ UNCHANGED << videos, stats, initError, cancelScanRef, runs, initPc,
                  nclicks, requestQueue, isProcessingQueue, current,
                  timerLeft, sinceDispatch, sinceFetch, expanded, settled,
                  clearPc,
                  snippet,
                  analysis,
                  sinkDown,
                  tracked,
                  searchHistory >>

\* useLiveQuery runs the candidates query on the current store
LiveQuery(vid) ==
  /\ candidates' = [videoId |-> vid, rows |-> candidatesQuery(comments, vid)]
  /\ UNCHANGED << comments, videos, stats, initError, cancelScanRef, runs,
                  initPc, nclicks, requestQueue, isProcessingQueue, current,
                  timerLeft, sinceDispatch, sinceFetch, expanded, settled,
                  clearPc,
                  snippet,
                  analysis,
                  sinkDown,
                  tracked,
                  searchHistory >>

\* the candidates query over the store contents
NextQuery ==
  \/ \E id \in QueryIds, vid \in {videoId, otherVideoId}, text \in QueryTexts :
        StorePut(id, vid, text)
  \/ \E vid \in {videoId, otherVideoId} : LiveQuery(vid)

SpecQuery == Init /\ [][NextQuery]_vars

\* the pieces the texts are built from: name: space a [a] "it's Ab" Ab what?
Fragments ==
  { << "n", "a", "m", "e", ":" >>, << " " >>, << "a" >>,
    << "[", "a", "]" >>, << "i", "t", "'", "s", " ", "A", "b" >>,
    << "A", "b" >>, << "w", "h", "a", "t", "?" >> }

\* mapApiCommentToLocal: const analysis = analyzeComment(snippet.textOriginal);
\* text.match on a text that is absent raises a TypeError
scoreSnippet(s) ==
  IF "textOriginal" \in DOMAIN s
  THEN [outcome |-> "returned", thrown |-> Undefined,
        result |-> analyzeComment(s.textOriginal)]
  ELSE [outcome |-> "thrown", thrown |-> "TypeError",
        result |-> NoAnalysis.result]

\* the remote's comment has a longer text
TextGrows(f) ==
  /\ "textOriginal" \in DOMAIN snippet
  /\ Len(snippet.textOriginal) + Len(f) <= MaxTextLen
  /\ snippet' = [snippet EXCEPT !.textOriginal = @ \o f]
  /\ analysis' = NoAnalysis
  /\ UNCHANGED << comments, videos, stats, initError, cancelScanRef, runs,
                  initPc, nclicks, requestQueue, isProcessingQueue, current,
                  timerLeft, sinceDispatch, sinceFetch, expanded, settled,
                  clearPc, candidates,
                  sinkDown,
                  tracked,
                  searchHistory >>

\* the remote's comment has no textOriginal
TextAbsent ==
  /\ "textOriginal" \in DOMAIN snippet
  /\ snippet' = [likeCount |-> snippet.likeCount]
  /\ analysis' = NoAnalysis
  /\ UNCHANGED << comments, videos, stats, initError, cancelScanRef, runs,
                  initPc, nclicks, requestQueue, isProcessingQueue, current,
                  timerLeft, sinceDispatch, sinceFetch, expanded, settled,
                  clearPc, candidates,
                  sinkDown,
                  tracked,
                  searchHistory >>

\* mapApiCommentToLocal scores the snippet
ScoreComment ==
  /\ analysis = NoAnalysis
  /\ analysis' = scoreSnippet(snippet)
  /\ UNCHANGED << comments, videos, stats, initError, cancelScanRef, runs,
                  initPc, nclicks, requestQueue, isProcessingQueue, current,
                  timerLeft, sinceDispatch, sinceFetch, expanded, settled,
                  clearPc, candidates, snippet,
                  sinkDown,
                  tracked,
                  searchHistory >>

\* the scoring step over the texts of the remote's comments
NextAnalyze ==
  \/ \E f \in Fragments : TextGrows(f)
  \/ TextAbsent
  \/ ScoreComment

SpecAnalyze == Init /\ [][NextAnalyze]_vars

\* ------------------------------------------------------ steps and histories
\* a step in which handleSmartScan or handleDeepScan is invoked
StartStep ==
  \E r \in Runs : runs[r].pc = "none" /\ runs'[r].pc \in {"meta_get", "deep_query"}

\* a step of handleClear (the only writer of the idle status)
ClearStep == nclicks' = nclicks + 1 /\ stats'.status = "idle"

\* a step in which a queue task is started
TaskStartStep == current = NoTask /\ current' # NoTask

\* a step in which a remote request is sent
RequestStep == current' # NoTask /\ current' # current

\* the rows the thread pages of the remote produce
AllThreadRows ==
  PageRows(RemoteThreadPage("").items, videoId) \o
  PageRows(RemoteThreadPage("p2").items, videoId)

\* the thread page itself carries all replies of the thread
InlineComplete(id) ==
  \E i \in 1..Len(AllThreadRows) :
    AllThreadRows[i].id = id /\ AllThreadRows[i].repliesFetched

\* ------------------------------------------------------------------- claims
\* C1: once the status is paused, complete or error it changes only through
\* a start() call; after stopScan it stays paused until the next start
\* (the explicit Clear Data reset is left aside).
C1_TerminalStatusLeftOnlyByStart ==
  [][(stats.status \in {"paused", "complete", "error"}
      /\ stats'.status # stats.status) => (StartStep \/ ClearStep)]_vars

\* C2: at most one scan run is active for the container at any time.
C2_AtMostOneActiveRun ==
  Cardinality({r \in Runs : Active(r)}) <= 1

\* C3: once the call that was in flight when stopScan was clicked has
\* settled, the cancelled run sends no further remote request (stated for
\* the case where no later start has cleared the cancel flag).
C3_NoRequestAfterCancelSettled ==
  [][\A r \in Runs :
       (runs'[r].cancelSeen = "settled" /\ cancelScanRef')
         => ~(RequestStep /\ current'.caller = r)]_vars

\* C4: a stored repliesFetched = true never becomes false (or absent) again
\* unless the container is reset.
C4_RepliesFetchedMonotonic ==
  [][\A id \in DOMAIN comments :
       (comments[id].repliesFetched /\ ~ClearStep)
         => (id \in DOMAIN comments' /\ comments'[id].repliesFetched)]_vars

\* C5: a run does not expand again a thread whose reply expansion an earlier
\* run had completed before this run started (no reset in between).
C5_NoReExpansion ==
  [][\A r \in Runs :
       ~(/\ RequestStep
         /\ current'.kind = "comments"
         /\ current'.caller = r
         /\ current'.parentId \in runs'[r].doneAtStart)]_vars

\* C6: a thread is stored with repliesFetched = true only if its replies came
\* complete with the thread page or its reply pagination reached a response
\* without a next-page token.
C6_FetchedOnlyWhenExhausted ==
  \A id \in DOMAIN comments :
    (comments[id].parentId = Null /\ comments[id].repliesFetched)
      => (id \in expanded \/ InlineComplete(id))

\* C7: queue tasks are started in the order they were enqueued, one at a
\* time: an enqueue only appends, a task is started only when none is
\* executing, the task started is the oldest one waiting, and a single
\* worker (isProcessingQueue) is draining whenever work is pending.
C7_QueueFIFO ==
  /\ [][/\ (TaskStartStep /\ requestQueue # <<>>)
             => (current' = Head(requestQueue)
                 /\ requestQueue' = Tail(requestQueue))
        /\ (TaskStartStep /\ requestQueue = <<>>) => requestQueue' = <<>>
        /\ (~TaskStartStep /\ requestQueue' # requestQueue)
             => (Len(requestQueue') = Len(requestQueue) + 1
                 /\ SubSeq(requestQueue', 1, Len(requestQueue)) = requestQueue)
        /\ (current # NoTask /\ current' # NoTask)
             => (current'.caller = current.caller
                 /\ current'.kind = current.kind
                 /\ current'.parentId = current.parentId)]_vars
  /\ []((current # NoTask \/ requestQueue # <<>>) => isProcessingQueue)

\* C7 witness: the tasks of two different callers wait while the worker,
\* after a first task, sleeps before taking the next one
C7_Witness ==
  /\ isProcessingQueue
  /\ current = NoTask
  /\ Len(requestQueue) = 2
  /\ requestQueue[1].caller # requestQueue[2].caller

C9_AllRequestsPaced ==
  [][RequestStep => sinceFetch >= MinInterval]_vars

\* C10: start(mode) yields status running, the requested mode, fetchedCount 0
\* and no error message.
C10_StartResets ==
  [][StartStep =>
       /\ stats'.status = "running"
       /\ stats'.mode \in {"smart", "deep"}
       /\ \E r \in Runs : runs[r].pc = "none" /\ runs'[r].mode = stats'.mode
       /\ stats'.fetchedCount = 0
       /\ stats'.error = Undefined]_vars

\* a step in which the response to a request of endpoint kind is handled
ResponseStep(kind) == current.kind = kind /\ settled'.kind = kind

\* the tasks of run r that wait in the queue after the step
QueuedAfter(r) ==
  {i \in 1..Len(requestQueue') : requestQueue'[i].caller = r}

\* C11: when a response received during a run, for a thread page or for a
\* reply page, is the forbidden (quota) response, the run ends with status
\* error and the message retained, the request is not sent again and the run
\* sends no further request.
C11_QuotaEndsRun ==
  [][\A kind \in {"commentThreads", "comments"} :
       (ResponseStep(kind) /\ settled'.status = Forbidden)
         => /\ stats'.status = "error"
            /\ stats'.error = "Quota Exceeded"
            /\ runs'[current.caller].pc = "none"
            /\ current' = NoTask
            /\ QueuedAfter(current.caller) = {}]_vars

\* C12: each of fetchVideoDetails, fetchCommentThreads and fetchReplies
\* throws "Quota Exceeded" to its caller when the remote answers with the
\* forbidden status and "Network Error" when it answers with any other
\* non-success status, and does not send the failed request again.
C12_ErrorsRaisedToCaller ==
  [][\A kind \in {"videos", "commentThreads", "comments"} :
       (ResponseStep(kind) /\ ~ResOk(settled'.status))
         => /\ settled'.thrown = IF settled'.status = Forbidden
                                 THEN "Quota Exceeded" ELSE "Network Error"
            /\ current' = NoTask]_vars

\* the task enqueueRequest pushed last in the step
LastQueued == requestQueue'[Len(requestQueue')]

\* C13: a non-success, non-forbidden response (network error) to a thread
\* page request halts the run with status error, whereas one to a reply
\* request of a thread does not: the run goes on with the next thread to
\* expand, or with the rest of the scan, and can still end with status
\* complete.
C13_NetworkErrorPolicy ==
  [][\A r \in Runs :
       LET failed(kind) == /\ ResponseStep(kind)
                           /\ current.caller = r
                           /\ ~ResOk(settled'.status)
                           /\ settled'.status # Forbidden
           rest == Tail(runs[r].threads)
       IN  /\ failed("commentThreads")
                => /\ stats'.status = "error"
                   /\ stats'.error = "Network Error"
                   /\ runs'[r].pc = "none"
                   /\ QueuedAfter(r) = {}
           /\ failed("comments")
                => /\ stats'.status \in {stats.status, "complete"}
                   /\ stats'.error = stats.error
                   /\ (rest # <<>> /\ ~cancelScanRef)
                        => /\ runs'[r].pc = "await_replies"
                           /\ runs'[r].threads = rest
                           /\ LastQueued.kind = "comments"
                           /\ LastQueued.caller = r
                           /\ LastQueued.parentId = Head(rest).id
                   /\ runs'[r].pc = "none" => stats'.status = "complete"]_vars

\* C13 witness: the reply request of the last thread of a run has failed
\* with a network error and the run has ended with status complete
C13_Witness ==
  /\ settled.kind = "comments"
  /\ settled.status = 500
  /\ stats.status = "complete"
  /\ \A r \in Runs : ~Active(r)

\* C14: when the metadata lookup yields no item, fetchVideoDetails returns
\* null without throwing and without writing a metadata row; the controller
\* then reports that the details could not be retrieved, the scan status
\* does not change to error, and no scan run and no thread-page request is
\* started.
C14_MetadataNotFound ==
  [][(/\ ResponseStep("videos")
      /\ settled'.status = 200
      /\ settled'.value = Null)
       => /\ settled'.thrown = Undefined
          /\ videos' = videos
          /\ initError' # Null
          /\ stats' = stats
          /\ ~StartStep
          /\ requestQueue' = requestQueue]_vars

\* a step in which the thread query of run r, waiting at pc, returns and
\* the run has not been cancelled
QueryStep(r, pc) ==
  runs[r].pc = pc /\ runs'[r].pc # pc /\ ~cancelScanRef

\* a step in which a fetchReplies call of run r, of the given mode, settles
ExpansionSettles(r, mode) ==
  /\ ResponseStep("comments")
  /\ current.caller = r
  /\ runs[r].mode = mode
  /\ current' = NoTask

\* after the step, run r goes on with the threads left in its list: it has
\* enqueued the expansion of the next one, unless it was cancelled
ProceedsWith(r, rest) ==
  (rest # <<>> /\ ~cancelScanRef)
    => /\ runs'[r].pc = "await_replies"
       /\ runs'[r].threads = rest
       /\ LastQueued.kind = "comments"
       /\ LastQueued.caller = r
       /\ LastQueued.parentId = Head(rest).id

\* the requests of run r that are queued or in flight after the step
PendingAfter(r) ==
  Cardinality(QueuedAfter(r)) + (IF current'.caller = r THEN 1 ELSE 0)

C17_ThreadRowReplyCount ==
  [][(ResponseStep("commentThreads") /\ ResOk(settled'.status))
       => LET items == RemoteThreadPage(current.pageToken).items
          IN  \A i \in 1..Len(items) :
                LET row == comments'[items[i].topLevelComment.id]
                    inlined == Len(items[i].replies)
                IN  /\ row.replyCount = items[i].totalReplyCount
                    /\ row.repliesFetched
                         => inlined >= items[i].totalReplyCount
                    /\ inlined < items[i].totalReplyCount
                         => (~row.repliesFetched /\ row.replyCount > 0)]_vars

\* the batch the response handled in the step upserts
PutBatch ==
  IF current.kind = "commentThreads"
  THEN PageRows(RemoteThreadPage(current.pageToken).items, videoId)
  ELSE ReplyRows(RemoteReplyPage(current.parentId, current.pageToken).items,
                 videoId, current.parentId)

\* C18: the comment store holds one row per comment id: after a batch is
\* upserted every id of the batch has the values of the batch, whatever was
\* stored under it before, no other row is added, removed or changed (but
\* for the repliesFetched mark fetchReplies sets on the parent), and
\* upserting the same batch once more changes nothing.
C18_UpsertLastWins ==
  [][\A kind \in {"commentThreads", "comments"} :
       (ResponseStep(kind) /\ ResOk(settled'.status))
         => /\ DOMAIN comments' = DOMAIN comments \cup Ids(PutBatch)
            /\ \A i \in 1..Len(PutBatch) :
                 (\A j \in (i + 1)..Len(PutBatch) :
                    PutBatch[j].id # PutBatch[i].id)
                   => comments'[PutBatch[i].id] = PutBatch[i]
            /\ \A id \in DOMAIN comments \ Ids(PutBatch) :
                 \/ comments'[id] = comments[id]
                 \/ /\ id = current.parentId
                    /\ comments'[id] = [comments[id] EXCEPT
                                          !.repliesFetched = TRUE]
            /\ bulkPut(comments', PutBatch) = comments'
            /\ Cardinality(DOMAIN bulkPut(comments', PutBatch))
                 = Cardinality(DOMAIN comments')]_vars

\* C18 witness: the first thread page has just been upserted over a stored
\* row of thread A that a completed expansion had marked as fetched; the
\* row holds the values of the latest upsert
C18_Witness ==
  /\ settled.kind = "commentThreads"
  /\ settled.value = "p2"
  /\ "A" \in expanded
  /\ "A" \in DOMAIN comments
  /\ ~comments["A"].repliesFetched


\* ------------------------------------------------------------------- C19
\* the rows of the containers other than vid, comments and metadata
OtherRows(table, meta, vid) ==
  << [id \in {k \in DOMAIN table : table[k].videoId # vid} |-> table[id]],
     [v \in DOMAIN meta \ {vid} |-> meta[v]] >>

\* a step of resetDatabaseForVideo, and the step in which it completes
ResetStep == clearPc' # clearPc
ResetDone == clearPc = "videos" /\ clearPc' = "none"

\* C19: when resetDatabaseForVideo(videoId) completes the store holds no
\* comment row and no metadata row of videoId; its steps leave every comment
\* row and metadata row of the other videos unchanged; and running it again
\* on the resulting store leaves the store the same.
C19_ResetContainer ==
  [][ /\ ResetStep =>
           OtherRows(comments', videos', videoId)
             = OtherRows(comments, videos, videoId)
      /\ ResetDone =>
           /\ RowsOfVideo(comments', videoId) = << >>
           /\ videoId \notin DOMAIN videos'
           /\ deleteWhereVideo(comments', videoId) = comments'
           /\ [v \in DOMAIN videos' \ {videoId} |-> videos'[v]] = videos'
    ]_vars


\* ------------------------------------------------------------------- C20
\* the rows of the result are rows of the store, of the video the query was
\* made for, with a score in [MinCandidateScore, MaxCandidateScore]
CandidatesInRange ==
  \A i \in 1..Len(candidates.rows) :
     LET row == candidates.rows[i]
     IN  /\ row.id \in DOMAIN comments /\ comments[row.id] = row
         /\ row.videoId = candidates.videoId
         /\ row.score >= MinCandidateScore
         /\ row.score <= MaxCandidateScore

\* C20 as stated: for every store content and every video id, the candidates
\* query returns only comments of that video with a score in [1,100], and
\* the returned sequence is sorted strictly descending by score.
C20_CandidatesStrictlyDescending ==
  candidates # NoQuery =>
     /\ CandidatesInRange
     /\ \A i \in 1..(Len(candidates.rows) - 1) :
           candidates.rows[i].score > candidates.rows[i + 1].score

\* C20 amended: for every store content and every video id, the candidates
\* query returns only comments of that video with a score in [1,100], and
\* the returned sequence is sorted by score in non-increasing order: no row
\* is followed by a row of a higher score, and rows of equal score can
\* follow each other.
C20_CandidatesDescending ==
  candidates # NoQuery =>
     /\ CandidatesInRange
     /\ \A i \in 1..(Len(candidates.rows) - 1) :
           candidates.rows[i].score >= candidates.rows[i + 1].score

\* the query for videoId has returned three rows, two of them of equal
\* score, from a store that also holds a row of the other video within the
\* score range and a row of videoId with score 0
C20_Witness ==
  /\ candidates # NoQuery
  /\ candidates.videoId = videoId
  /\ Len(candidates.rows) = MaxRows
  /\ \E i \in 1..(Len(candidates.rows) - 1) :
        /\ candidates.rows[i].score = candidates.rows[i + 1].score
        /\ candidates.rows[1].score > candidates.rows[MaxRows].score
  /\ \E id \in DOMAIN comments :
        /\ comments[id].videoId = otherVideoId
        /\ comments[id].score >= MinCandidateScore


\* ------------------------------------------------------------------- C21
\* the heuristics the scored text triggers, and the sum of what they add
Triggers(kind) ==
  LET text == snippet.textOriginal
  IN  CASE kind = "source" -> matchSOURCE(text).found
        [] kind = "helper" -> matchHELPER(text).found
        [] kind = "bracket" -> matchBRACKET(text).found
        [] kind = "question" -> testQUESTION(text)

ContributionSum ==
  (IF Triggers("source") THEN 80 ELSE 0)
    + (IF Triggers("helper") THEN 50 ELSE 0)
    + (IF Triggers("bracket") THEN 40 ELSE 0)
    + (IF Triggers("question") THEN 10 ELSE 0)

\* the scoring step has returned for a snippet that has a text
Scored == analysis.outcome = "returned"

HighlightsOf(kind) ==
  SelectSeq(analysis.result.highlights, LAMBDA h : h.type = kind)

\* C22: for every text on which the source pattern matches, the highlight of
\* kind source spans exactly the captured value of the match: it starts at
\* the offset at which the captured value begins in the text, after the label
\* and the separator, and the text between its start and its end is the
\* captured value.
C22_SourceHighlightIsValue ==
  (Scored /\ Triggers("source")) =>
    LET text == snippet.textOriginal
        m == matchSOURCE(text)
        valueOffset == m.index + Len(m.m0) - Len(m.m2)
    IN  /\ Len(HighlightsOf("source")) = 1
        /\ LET h == HighlightsOf("source")[1]
           IN  /\ h.start = valueOffset
               /\ h.start > m.index + Len(m.m1)
               /\ h.end = valueOffset + Len(m.m2)
               /\ SubSeq(text, h.start + 1, h.end) = m.m2


\* ------------------------------------------------------------------- C23
\* every span lies within the text and is not empty
SpansWithinText ==
  \A i \in 1..Len(analysis.result.highlights) :
     LET h == analysis.result.highlights[i]
     IN  0 <= h.start /\ h.start < h.end
           /\ h.end <= Len(snippet.textOriginal)

\* there is at most one span of each kind
OneSpanPerKind ==
  \A kind \in {"source", "helper", "bracket"} : Len(HighlightsOf(kind)) <= 1

\* of any two spans one ends at or before the start of the other
SpansDisjoint ==
  \A i, j \in 1..Len(analysis.result.highlights) :
     i # j =>
       LET a == analysis.result.highlights[i]
           b == analysis.result.highlights[j]
       IN  a.end <= b.start \/ b.end <= a.start

\* C23: for every text the highlight spans are pairwise non-overlapping, each
\* span satisfies 0 <= start < end <= length of the text, and there is at
\* most one span per kind.
C23_SpansDisjoint ==
  Scored => (SpansDisjoint /\ SpansWithinText /\ OneSpanPerKind)


\* ------------------------------------------------------------------- C24
\* C24: the scoring step never raises: for every comment of the remote, the
\* one whose text is absent included, it returns a result, with score 0 when
\* there is no text to parse.
C24_ScoringNeverRaises ==
  analysis.outcome # "none" =>
    /\ analysis.outcome = "returned"
    /\ analysis.thrown = Undefined
    /\ "textOriginal" \notin DOMAIN snippet => analysis.result.score = 0


\* ------------------------------------------------------------------- C26
\* C26: in both scan modes every batch of comments a run writes to the store,
\* a thread page or a reply page, is followed by an increment of the progress
\* counter by the size of that batch, so fetchedCount grows by the number of
\* comments the run wrote.
C26_ProgressPerBatch ==
  [][\A kind \in {"commentThreads", "comments"} :
       (ResponseStep(kind) /\ ResOk(settled'.status))
         => stats'.fetchedCount = stats.fetchedCount + Len(PutBatch)
    ]_vars


\* ------------------------------------------------------------------- C28
\* the page tokens of the remote's thread pages, and the token of the page
\* whose response carries the given next-page token
ThreadTokens == {"", "p2"}
PageBefore(next) ==
  CHOOSE t \in ThreadTokens :
    TokenOrNull(RemoteThreadPage(t).nextPageToken) = next

\* the rows of the thread page run r has received last
LastPageRows(r) ==
  PageRows(RemoteThreadPage(PageBefore(runs[r].pageToken)).items, videoId)

\* a step in which the smart run r asks for a thread page after its first
NextPageRequested(r) ==
  /\ runs[r].mode = "smart"
  /\ runs[r].pc # "await_threads"
  /\ runs'[r].pc = "await_threads"
  /\ runs'[r].pageToken # ""

\* the step in which the smart run r evaluates its promising-thread query
SmartQueryStep(r) == runs[r].pc = "query" /\ runs'[r].pc # "query"

\* C28: in a smart scan the request for thread page k+1 is made only after
\* (a) all comments of page k have been written to the store, (b) the
\* promising-thread query has been evaluated on a store that contains all
\* of page k's comments and (c) every thread the query returned has been
\* expanded; a run that has observed the cancellation makes no such request.
C28_NextPageAfterExpansion ==
  [][\A r \in Runs :
       /\ (runs[r].pc = "await_threads" /\ runs'[r].pc = "query")
            => /\ ResponseStep("commentThreads") /\ ResOk(settled'.status)
               /\ \A i \in 1..Len(PutBatch) :
                     /\ PutBatch[i].id \in DOMAIN comments'
                     /\ comments'[PutBatch[i].id] = PutBatch[i]
       /\ SmartQueryStep(r)
            => Ids(LastPageRows(r)) \subseteq DOMAIN comments
       /\ NextPageRequested(r)
            => /\ ~cancelScanRef
               /\ \/ /\ SmartQueryStep(r)
                     /\ SelectSeq(RowsOfVideo(comments, videoId), IsPromising)
                          = << >>
                  \/ /\ ExpansionSettles(r, "smart")
                     /\ Len(runs[r].threads) = 1
                     /\ current.parentId = Head(runs[r].threads).id
    ]_vars


\* ------------------------------------------------------------------- C29
\* the step of stopScan: cancelScanRef.current is set
CancelStep == ~cancelScanRef /\ cancelScanRef'

\* the batches the remote serves for videoId: thread pages and reply pages
ReplyTokens == {"", "r2"}
AllBatches ==
  {PageRows(RemoteThreadPage(t).items, videoId) : t \in ThreadTokens}
    \cup {ReplyRows(RemoteReplyPage(p, t).items, videoId, p) :
            p \in {"A", "B", "C"}, t \in ReplyTokens}

\* every stored row of videoId belongs to a batch that is stored whole
WholeBatches(table) ==
  \A id \in DOMAIN table :
    table[id].videoId = videoId
      => \E batch \in AllBatches :
           id \in Ids(batch) /\ Ids(batch) \subseteq DOMAIN table

\* C29: cancellation is cooperative.  Setting the flag aborts nothing: the
\* request in flight, the queued tasks and the position of every run stay as
\* they are; the response of a call that was in flight is handled with the
\* flag set as it is without: its batch is written to the store and the
\* progress counter grows by the size of the batch; so the store holds only
\* whole page batches.
C29_CooperativeCancel ==
  [][/\ CancelStep
          => /\ current' = current
             /\ requestQueue' = requestQueue
             /\ \A r \in Runs : runs'[r].pc = runs[r].pc
     /\ \A kind \in {"commentThreads", "comments"} :
          (ResponseStep(kind) /\ ResOk(settled'.status) /\ cancelScanRef)
            => /\ \A i \in 1..Len(PutBatch) :
                    PutBatch[i].id \in DOMAIN comments'
               /\ stats'.fetchedCount = stats.fetchedCount + Len(PutBatch)
     /\ WholeBatches(comments')
    ]_vars


\* ------------------------------------------------------------------- C30
\* the chain of page tokens the remote hands out, from the first page on
RECURSIVE ChainFrom(_)
ChainFrom(token) ==
  IF token = Null THEN << >>
  ELSE << token >>
         \o ChainFrom(TokenOrNull(RemoteThreadPage(token).nextPageToken))
TokenChain == ChainFrom("")

\* the place of a page token in the chain; past the end for no token
ChainIndex(token) ==
  IF token = Null THEN Len(TokenChain) + 1
  ELSE CHOOSE i \in 1..Len(TokenChain) : TokenChain[i] = token

\* the thread-page tasks of run r that wait or are in flight after the step
ThreadTasksAfter(r) ==
  {t \in {requestQueue'[i] : i \in 1..Len(requestQueue')} \cup {current'} :
     t.kind = "commentThreads" /\ t.caller = r}

\* a step in which run r asks for a thread page
ThreadPageRequested(r) ==
  runs[r].pc # "await_threads" /\ runs'[r].pc = "await_threads"

\* a step in which run r ends, neither cancelled nor failing
EndsUncancelled(r) ==
  /\ Active(r) /\ runs[r].mode = "smart"
  /\ runs'[r].pc = "none"
  /\ ~cancelScanRef
  /\ stats'.status # "error"

\* C30: within one smart run the thread pages are requested in the order of
\* the token chain: the first request carries no token, every later request
\* carries the token the run's last response returned, a response moves the
\* run one place along the chain (so no page is requested twice), no request
\* follows a response without token, and the run that ends neither cancelled
\* nor failing has received that response and ends with status complete.
C30_TokenChainOrder ==
  [][\A r \in Runs :
       /\ ThreadPageRequested(r)
            => /\ runs[r].pageToken # Null
               /\ runs[r].pc \in {"meta_get", "await_meta"}
                    => runs[r].pageToken = ""
               /\ runs'[r].pageToken = runs[r].pageToken
               /\ ThreadTasksAfter(r) =
                    {[kind |-> "commentThreads", caller |-> r,
                      parentId |-> "", pageToken |-> runs[r].pageToken]}
       /\ (ResponseStep("commentThreads") /\ current.caller = r
             /\ ResOk(settled'.status))
            => /\ current.pageToken = runs[r].pageToken
               /\ runs'[r].pageToken =
                    TokenOrNull(RemoteThreadPage(current.pageToken)
                                  .nextPageToken)
               /\ ChainIndex(runs'[r].pageToken)
                    = ChainIndex(runs[r].pageToken) + 1
       /\ (Active(r) /\ runs'[r].pc # "none"
             /\ ~(ResponseStep("commentThreads") /\ current.caller = r))
            => runs'[r].pageToken = runs[r].pageToken
       /\ EndsUncancelled(r)
            => /\ runs[r].pageToken = Null
               /\ stats'.status = "complete"
    ]_vars

\* a smart run has walked the whole chain and completed
C30_Witness ==
  /\ stats.status = "complete" /\ stats.mode = "smart"
  /\ ~cancelScanRef
  /\ \A r \in Runs : ~Active(r)
  /\ \A i \in 1..Len(TokenChain) :
       Ids(PageRows(RemoteThreadPage(TokenChain[i]).items, videoId))
         \subseteq DOMAIN comments


\* ------------------------------------------------------------------- C25
\* the kinds of AnalyticsSink calls the step has issued, and whether one of
\* them has failed
EventsIssued == {tracked'[i].eventType : i \in DOMAIN tracked'}
SinkCallFailed == \E i \in DOMAIN tracked' : ~tracked'[i].stored

\* the step handles a successful thread-page response
ThreadsOk == ResponseStep("commentThreads") /\ ResOk(settled'.status)

\* the store after the step, as the response handled in it dictates: the
\* batch of a successful page is upserted, the end of a reply pagination
\* marks the parent
StoreAfterResponse ==
  IF ResponseStep("commentThreads")
  THEN IF ResOk(settled'.status) THEN bulkPut(comments, PutBatch)
       ELSE comments
  ELSE IF ResponseStep("comments")
  THEN IF ~ResOk(settled'.status)
       THEN updateRepliesFetched(comments, current.parentId)
       ELSE IF settled'.value = "more" THEN bulkPut(comments, PutBatch)
       ELSE updateRepliesFetched(bulkPut(comments, PutBatch),
                                 current.parentId)
  ELSE comments

\* the progress the step reports: the size of a thread page, or the reply
\* count of the thread a deep scan has expanded
ProgressOfStep ==
  IF ThreadsOk THEN Len(PutBatch)
  ELSE IF ExpansionSettles(current.caller, "deep")
  THEN Head(runs[current.caller].threads).replyCount
  ELSE 0

\* C25: a step in which an AnalyticsSink call fails has the effect it has
\* with a working sink.  The status is the one the step's scan event stands
\* for (error only with a CommentSource operation that raised), an operation
\* raises exactly on a thread response that is not ok, fetchedCount and the
\* stored comments change as the response handled in the step dictates, and
\* the run is at its next step without waiting for the sink: a started run
\* at its first await, the receiver of the page at its query, a finished or
\* failed run gone.
C25_SinkFailureHarmless ==
  [][SinkCallFailed
       => /\ stats'.status =
               IF "scan_error" \in EventsIssued THEN "error"
               ELSE IF "scan_completed" \in EventsIssued THEN "complete"
               ELSE IF "scan_started" \in EventsIssued THEN "running"
               ELSE IF "scan_paused" \in EventsIssued THEN "paused"
               ELSE IF cancelScanRef /\ stats'.status = "complete"
                       /\ \E r \in Runs : Active(r) /\ runs'[r].pc = "none"
               THEN "complete"
               ELSE stats.status
          /\ settled'.thrown =
               IF ResponseStep("commentThreads") /\ ~ResOk(settled'.status)
               THEN IF settled'.status = Forbidden THEN "Quota Exceeded"
                    ELSE "Network Error"
               ELSE Undefined
          /\ "scan_error" \in EventsIssued <=> settled'.thrown # Undefined
          /\ stats'.fetchedCount = stats.fetchedCount + ProgressOfStep
          /\ comments' = StoreAfterResponse
          /\ "scan_started" \in EventsIssued
               => \E r \in Runs : /\ ~Active(r)
                                  /\ runs'[r].pc \in {"meta_get", "deep_query"}
          /\ ThreadsOk => runs'[current.caller].pc = "query"
          /\ EventsIssued \cap {"scan_completed", "scan_error"} # {}
               => \E r \in Runs : Active(r) /\ runs'[r].pc = "none"
    ]_vars

\* a thread page has been handled while the sink was failing: both calls of
\* fetchCommentThreads failed, the page is counted and the scan is running
C25_Witness ==
  /\ Len(tracked) = 2
  /\ tracked[1].eventType = "api_call" /\ ~tracked[1].stored
  /\ tracked[2].eventType = "comments_fetched" /\ ~tracked[2].stored
  /\ stats.status = "running"
  /\ stats.fetchedCount > 0
  /\ \E r \in Runs : runs[r].pc = "query"


\* ------------------------------------------------------------------- C27
\* a step in which a run starts in slot r, and one in which run r ends
RunStarts(r) == ~Active(r) /\ runs'[r].pc # "none"
RunEnds(r) == Active(r) /\ runs'[r].pc = "none"

\* the outcome notifications the step has issued
OutcomesIssued ==
  EventsIssued \cap {"scan_completed", "scan_paused", "scan_error"}

\* C27: a run notifies the sink of scan start in the step it starts in and
\* of its outcome in the step it ends in, and the notification is the one of
\* the status the run ends in: scan_completed with status complete,
\* scan_error with status error; the cancellation is notified as scan_paused
\* and the run that ends cancelled ends with status paused and without a
\* scan_completed.
C27_OutcomeNotified ==
  [][/\ \A r \in Runs :
          /\ RunStarts(r)
               => \E i \in DOMAIN tracked' :
                    /\ tracked'[i].eventType = "scan_started"
                    /\ tracked'[i].detail = runs'[r].mode
          /\ RunEnds(r)
               => IF stats'.status = "error"
                  THEN OutcomesIssued = {"scan_error"}
                  ELSE IF cancelScanRef
                  THEN /\ OutcomesIssued = {}
                       /\ stats'.status = "paused"
                  ELSE /\ OutcomesIssued = {"scan_completed"}
                       /\ stats'.status = "complete"
     /\ CancelStep => OutcomesIssued = {"scan_paused"}
    ]_vars


\* ------------------------------------------------------------------- C31
\* every row of the table carries the score of its text
ScoresMatch(table) ==
  \A id \in DOMAIN table :
    /\ table[id].score = analyzeScore(table[id].textOriginal)
    /\ table[id].score \in 0..ScoreCap

\* the step upserts a batch that holds a row for id
Rewritten(id) ==
  \E kind \in {"commentThreads", "comments"} :
    ResponseStep(kind) /\ ResOk(settled'.status) /\ id \in Ids(PutBatch)

\* C31: every stored comment, top-level or reply, has the score of its
\* text, a number of 0..100, in every state; a row that no batch of the step
\* rewrites is left as it is or has only repliesFetched set.
C31_StoredScoreIsAnalysis ==
  /\ ScoresMatch(comments)
  /\ [][/\ ScoresMatch(comments')
        /\ \A id \in DOMAIN comments \cap DOMAIN comments' :
             ~Rewritten(id)
               => \/ comments'[id] = comments[id]
                  \/ comments'[id] =
                       [comments[id] EXCEPT !.repliesFetched = TRUE]
       ]_vars

\* thread A is stored with its score, its replies are stored with theirs and
\* the end of the reply pagination has marked it
C31_Witness ==
  /\ {"A", "A1", "A2"} \subseteq DOMAIN comments
  /\ comments["A"].repliesFetched
  /\ comments["A"].score = 80
  /\ comments["A1"].score = 40
  /\ comments["A2"].score = 0


\* ------------------------------------------------------------------- C32
\* the step handles a thread-page response on which fetchCommentThreads
\* throws
ThreadsRaise == ResponseStep("commentThreads") /\ settled'.thrown # Undefined

\* C32: a thread-page fetch that raises writes nothing and reports no
\* progress: the store and fetchedCount are as before the call, the run ends
\* with status error, and the store holds the whole batches written before.
C32_FailedPageWritesNothing ==
  [][ThreadsRaise
       => /\ comments' = comments
          /\ stats'.fetchedCount = stats.fetchedCount
          /\ stats'.status = "error"
          /\ runs'[current.caller].pc = "none"
          /\ WholeBatches(comments')
    ]_vars

\* the second thread page has failed: the first page is stored and counted,
\* nothing of the second is
C32_Witness ==
  /\ settled.kind = "commentThreads" /\ settled.thrown # Undefined
  /\ stats.status = "error"
  /\ stats.fetchedCount = 5
  /\ {"A", "B", "B1", "D", "D1"} \subseteq DOMAIN comments
  /\ "C" \notin DOMAIN comments


\* ------------------------------------------------------------------- C33
\* C33: a queue task that rejects rejects the promise of its caller only:
\* the run that enqueued it ends, every other run stays where it is, the
\* worker keeps draining (isProcessingQueue stays set, the waiting tasks stay
\* queued in their order, the delay of 250 ms is started); and every task
\* start, before or after a failure, takes the oldest waiting task at least
\* 250 ms after the previous start, a task leaving the queue only by being
\* started.
C33_RejectionStaysWithCaller ==
  [][/\ ThreadsRaise
          => /\ runs'[current.caller].pc = "none"
             /\ \A r \in Runs \ {current.caller} : runs'[r] = runs[r]
             /\ isProcessingQueue'
             /\ current' = NoTask
             /\ requestQueue' = requestQueue
             /\ timerLeft' = MinInterval
     /\ TaskStartStep
          => /\ sinceDispatch >= MinInterval
             /\ requestQueue # << >>
                  => /\ current' = Head(requestQueue)
                     /\ requestQueue' = Tail(requestQueue)
     /\ Len(requestQueue') < Len(requestQueue)
          => TaskStartStep /\ requestQueue' = Tail(requestQueue)
    ]_vars

\* a task has rejected while the task of another caller was waiting
C33_Witness ==
  /\ settled.thrown # Undefined
  /\ current = NoTask
  /\ isProcessingQueue
  /\ requestQueue # << >>


\* ------------------------------------------------------------------- C34
\* the callers of enqueueRequest: the runs and the initialization effect
Callers == Runs \cup {InitCaller}

\* a task of the caller waits in the queue
Waiting(caller) ==
  \E i \in 1..Len(requestQueue) : requestQueue[i].caller = caller

\* the task of the caller is being executed
Executing(caller) == current # NoTask /\ current.caller = caller

\* C34: every enqueued task is eventually started and every started task
\* eventually settles, whenever the enqueue arrives (the worker idle,
\* executing a task, or in its delay); and while no worker is draining the
\* queue is empty and no task is executing.
C34_EveryTaskExecuted ==
  /\ [](~isProcessingQueue => (requestQueue = << >> /\ current = NoTask))
  /\ \A caller \in Callers : Waiting(caller) ~> Executing(caller)
  /\ \A caller \in Callers : Executing(caller) ~> ~Executing(caller)

\* a task was enqueued while the worker was in its delay after another task
C34_Witness ==
  /\ isProcessingQueue
  /\ current = NoTask
  /\ timerLeft > 0
  /\ requestQueue # << >>

\* ------------------------------------------------------------------- C35
\* the scan state a run can be left in
Ended == {"complete", "paused", "error"}

\* no task waits, none is executed and no worker drains the queue
QueueIdle ==
  requestQueue = << >> /\ current = NoTask /\ ~isProcessingQueue

\* C35: with finite token chains and every remote call settling, the
\* activity of every started run ends, the running status is eventually
\* left for complete, paused or error, and the request queue eventually is
\* empty with no worker draining it.
C35_RunsTerminate ==
  /\ \A r \in Runs : Active(r) ~> ~Active(r)
  /\ (stats.status = "running") ~> (stats.status \in Ended)
  /\ (~QueueIdle) ~> QueueIdle

\* a deep scan that expanded a thread has completed, a smart scan has ended
\* in an error, and the queue is idle
C35_Witness ==
  /\ stats.status = "complete"
  /\ stats.mode = "deep"
  /\ stats.error # Undefined
  /\ expanded # {}
  /\ \A r \in Runs : ~Active(r)
  /\ QueueIdle

\* ------------------------------------------------------------------- C36
\* Clear Data was used while a run was active and nothing has been started
\* since: the status is idle only initially and after handleClear, and
\* every start sets it to running
ClearedWhileRunning == stats.status = "idle" /\ \E r \in Runs : Active(r)

\* C36: after Clear Data during a running scan, and until the next start,
\* no comment row of the video is written, fetchedCount stays 0 and the
\* status stays idle.
C36_ClearIsFinal ==
  [][(ClearedWhileRunning /\ ~StartStep) =>
       /\ stats'.status = "idle"
       /\ stats'.fetchedCount = 0
       /\ RowsOfVideo(comments', videoId) = << >>]_vars

\* ------------------------------------------------------------------- C37
\* run r ends in this step after its loop, not cancelled and without error
CompletesNormally(r) ==
  RunEnds(r) /\ stats'.status = "complete" /\ ~cancelScanRef'

\* the results count on the most recent search-history entry of the video
RecordedCount(history) ==
  history[MostRecent(history, videoId)].resultsCount

\* C37: when a run completes normally, the results count recorded on the
\* most recent search-history entry of the video is the fetchedCount of the
\* scan state at completion.
C37_ResultsCountRecorded ==
  [][\A r \in Runs : CompletesNormally(r) =>
       RecordedCount(searchHistory') = stats'.fetchedCount]_vars

====
